---- MODULE Spec2Model ----
(***************************************************************************)
(* Model of transcribe_segments.py: a script that loads a Whisper model,   *)
(* reads an audio file, cuts it into fixed windows of segment_sec seconds, *)
(* passes every window that is not too short to model.transcribe and       *)
(* appends one timestamped line per non-empty result to <wav>.txt.         *)
(*                                                                         *)
(* One run of the script is one pass through the program counter pc; the   *)
(* output file on disk survives from one run to the next.  The file object *)
(* f of the script is modelled by what has reached the disk (disk) and by  *)
(* what f.write has accepted but the io layer still holds in memory (buf). *)
(***************************************************************************)
EXTENDS Integers, Sequences, FiniteSets

(* ------------------------------ bounds -------------------------------- *)

\* segment_sec is held in units of 1/SecDenom second, so that windows
\* shorter than half a second can be configured
SecDenom == 4
\* largest segment_sec (in units of 1/SecDenom second)
MaxSegmentSec == 4
\* largest sample rate
MaxRate == 4
\* largest number of samples load_audio returns
MaxSamples == 5
\* number of consecutive runs of the script
MaxRuns == 2
\* how far below zero the settings of InitCfg reach
MaxNegative == 1

(* ------------------------------ helpers ------------------------------- *)

Unset == 0 - 1

Abs(x) == IF x < 0 THEN 0 - x ELSE x

Min(a, b) == IF a <= b THEN a ELSE b

Max(a, b) == IF a >= b THEN a ELSE b

\* Trunc got wrong: floor division, as num // den would give
TruncFloor(num, den) == num \div den

\* int(num / den) for den > 0: truncation towards zero
Trunc(num, den) == IF num >= 0 THEN num \div den ELSE 0 - ((0 - num) \div den)

\* int(segment_sec * sr), segment_sec given in units of 1/SecDenom second
SegmentSamples(sec, rate) == Trunc(sec * rate, SecDenom)

\* CeilDiv got wrong: the quotient rounded down, as a // b would give
FloorDiv(a, b) == a \div b

\* math.ceil(a / b) for a >= 0 and b # 0
CeilDiv(a, b) == IF b > 0 THEN (a + b - 1) \div b ELSE 0 - (a \div (0 - b))

\* len(audio[s:e]) for 0 <= s, 0 <= e and an audio of n samples
SliceLen(s, e, n) == Max(0, Min(e, n) - Min(s, n))

\* TooShort got wrong: <= in place of <
TooShortOrEqual(len, rate) == 2 * len <= rate

\* len(segment_audio) < sr * 0.5
TooShort(len, rate) == 2 * len < rate

\* start of window k: k * segment_samples
SegStart(k, wsc) == k * wsc

\* SegEnd got wrong: the end is not clamped to the audio
SegEndNoClamp(k, wsc, n) == (k + 1) * wsc

\* end of window k: min((k + 1) * segment_samples, total_samples)
SegEnd(k, wsc, n) == Min((k + 1) * wsc, n)

\* the number printed by {x:6.1f} for x = a / b, in tenths: the nearest
\* tenth, an exact tie going to the even digit (the padding to width 6
\* does not change the number)
RoundTenths(a, b) ==
    LET num == Abs(a) * 10
        den == Abs(b)
        q   == num \div den
        r   == num % den
        mag == IF 2 * r > den THEN q + 1
               ELSE IF 2 * r = den /\ q % 2 = 1 THEN q + 1
               ELSE q
    IN  IF (a < 0) # (b < 0) THEN 0 - mag ELSE mag

Whitespace == {" ", "\t"}

RECURSIVE LStrip(_)
LStrip(s) == IF s # <<>> /\ Head(s) \in Whitespace THEN LStrip(Tail(s)) ELSE s

RECURSIVE RStrip(_)
RStrip(s) ==
    IF s # <<>> /\ s[Len(s)] \in Whitespace
    THEN RStrip(SubSeq(s, 1, Len(s) - 1))
    ELSE s

\* Strip got wrong: lstrip() in place of strip()
StripLeft(s) == LStrip(s)

\* str.strip()
Strip(s) == RStrip(LStrip(s))

\* result.get("text") or ""
TextOf(result) == IF result.has_text /\ result.text # <<>> THEN result.text ELSE <<>>

\* what model.transcribe can return: a result without "text", or with a
\* text that is empty, only whitespace, or words surrounded by whitespace
Results ==
    {[has_text |-> FALSE, text |-> <<>>],
     [has_text |-> TRUE, text |-> <<>>],
     [has_text |-> TRUE, text |-> <<" ", "\t">>],
     [has_text |-> TRUE, text |-> <<" ", "a", " ", "b", "\t">>]}

NoResult == [has_text |-> FALSE, text |-> <<>>]

\* f"[{start_time:6.1f}-{end_time:6.1f}s] {text}\n" of window k of run r
Line(r, k, s, e, rate, text) ==
    [run |-> r, seg |-> k,
     start_time |-> RoundTenths(s, rate), end_time |-> RoundTenths(e, rate),
     text |-> text]

\* a line left in the output file by something that ran before run 1
StaleLine == [run |-> 0, seg |-> 0, start_time |-> 0, end_time |-> 10, text |-> <<"b">>]

NoFile == [exists |-> FALSE, lines |-> <<>>]

PreExisting == {NoFile, [exists |-> TRUE, lines |-> <<>>],
                [exists |-> TRUE, lines |-> <<StaleLine>>]}

\* RemoveIfExists got wrong: the existing file is kept
RemoveNothing(d) == d

\* if os.path.exists(out_path): os.remove(out_path)
RemoveIfExists(d) == IF d.exists THEN NoFile ELSE d

\* open(out_path, "a"): creates the file when absent, keeps its content
OpenAppend(d) == IF d.exists THEN d ELSE [exists |-> TRUE, lines |-> <<>>]

\* Close got wrong: f is dropped without being closed, what it holds is lost
CloseNoFlush(d, b) == d

\* closing f writes what the io layer still holds
Close(d, b) == [d EXCEPT !.lines = d.lines \o b]

(* ------------------------------- state -------------------------------- *)

VARIABLES
    segment_sec,     \* setting, in units of 1/SecDenom second
    sr,              \* sample rate
    run,             \* number of this run of the script
    pc,              \* position of the script
    error,           \* the exception that ended the run, or "none"
    model_loaded,    \* whisper.load_model has returned
    audio,           \* len(audio), Unset before load_audio returns
    total_samples,
    segment_samples,
    total_segments,
    i,               \* loop index
    start,
    end,
    disk,            \* the output file as stored: [exists, lines]
    stale,           \* the output file held lines when this run started
    buf,             \* lines written to f and not yet on disk
    invoked,         \* the calls of model.transcribe in this run, in order
    skipped          \* the windows this run dropped as too short

vars == <<segment_sec, sr, run, pc, error, model_loaded, audio, total_samples,
          segment_samples, total_segments, i, start, end, disk, stale, buf,
          invoked, skipped>>

\* settings under which the segmentation is defined: W > 0, R > 0 and
\* int(W * R) >= 1
ValidSettings ==
    {c \in (1..MaxSegmentSec) \X (1..MaxRate) : SegmentSamples(c[1], c[2]) >= 1}

\* any settings, non-positive ones included
AnySettings ==
    ((0 - MaxNegative)..MaxSegmentSec) \X ((0 - MaxNegative)..MaxRate)

Running == {"load_model", "load_audio", "segmentation", "prepare_output",
            "open_output", "loop", "transcribe"}

Ended == {"done", "failed", "killed"}

\* the state of a run that has not started yet
Fresh ==
    /\ pc = "load_model"
    /\ error = "none"
    /\ model_loaded = FALSE
    /\ audio = Unset
    /\ total_samples = Unset
    /\ segment_samples = Unset
    /\ total_segments = Unset
    /\ i = Unset
    /\ start = Unset
    /\ end = Unset
    /\ buf = <<>>
    /\ invoked = <<>>
    /\ skipped = {}

InitWith(settings) ==
    /\ \E c \in settings : segment_sec = c[1] /\ sr = c[2]
    /\ run = 1
    /\ disk \in PreExisting
    /\ stale = (disk.lines # <<>>)
    /\ Fresh

Init == InitWith(ValidSettings)

InitCfg == InitWith(AnySettings)

(* ------------------------------ actions ------------------------------- *)

\* an exception leaves the script
Raise(name) == pc' = "failed" /\ error' = name

\* line 12: model = whisper.load_model("small")
LoadModel ==
    /\ pc = "load_model"
    /\ \E ok \in BOOLEAN :
         IF ok THEN model_loaded' = TRUE /\ pc' = "load_audio" /\ error' = error
         ELSE model_loaded' = model_loaded /\ Raise("ModelError")
    /\ UNCHANGED <<segment_sec, sr, run, audio, total_samples, segment_samples,
                   total_segments, i, start, end, disk, stale, buf, invoked,
                   skipped>>

\* LoadAudio got wrong: the output file is removed before the audio is read
LoadAudioAfterRemove ==
    /\ pc = "load_audio"
    /\ disk' = RemoveIfExists(disk)
    /\ \/ \E n \in 0..MaxSamples :
             audio' = n /\ pc' = "segmentation" /\ error' = error
       \/ audio' = audio /\ Raise("InputError")
    /\ UNCHANGED <<segment_sec, sr, run, model_loaded, total_samples,
                   segment_samples, total_segments, i, start, end, stale,
                   buf, invoked, skipped>>

\* line 17: audio = load_audio(wav_path)
LoadAudio ==
    /\ pc = "load_audio"
    /\ \/ \E n \in 0..MaxSamples :
             audio' = n /\ pc' = "segmentation" /\ error' = error
       \/ audio' = audio /\ Raise("InputError")
    /\ UNCHANGED <<segment_sec, sr, run, model_loaded, total_samples,
                   segment_samples, total_segments, i, start, end, disk, stale,
                   buf, invoked, skipped>>

\* lines 20-26: total_samples, audio_duration, segment_samples, total_segments
Segmentation ==
    /\ pc = "segmentation"
    /\ total_samples' = audio
    /\ IF sr = 0
       THEN \* line 21: total_samples / sr
            /\ Raise("ZeroDivisionError")
            /\ UNCHANGED <<segment_samples, total_segments>>
       ELSE /\ segment_samples' = SegmentSamples(segment_sec, sr)
            /\ IF segment_samples' = 0
               THEN \* line 25: total_samples / segment_samples
                    /\ Raise("ZeroDivisionError")
                    /\ UNCHANGED total_segments
               ELSE /\ total_segments' = CeilDiv(audio, segment_samples')
                    /\ pc' = "prepare_output"
                    /\ error' = error
    /\ UNCHANGED <<segment_sec, sr, run, model_loaded, audio, i, start, end,
                   disk, stale, buf, invoked, skipped>>

\* lines 29-31: the output path; an existing file is removed
PrepareOutput ==
    /\ pc = "prepare_output"
    /\ disk' = RemoveIfExists(disk)
    /\ pc' = "open_output"
    /\ UNCHANGED <<segment_sec, sr, run, error, model_loaded, audio,
                   total_samples, segment_samples, total_segments, i, start,
                   end, stale, buf, invoked, skipped>>

\* line 34: with open(out_path, "a") as f; line 35 starts range(total_segments)
OpenOutput ==
    /\ pc = "open_output"
    /\ disk' = OpenAppend(disk)
    /\ buf' = <<>>
    /\ i' = 0
    /\ pc' = "loop"
    /\ UNCHANGED <<segment_sec, sr, run, error, model_loaded, audio,
                   total_samples, segment_samples, total_segments, start, end,
                   stale, invoked, skipped>>

\* lines 35-47: the next window; a window that is too short is skipped
NextSegment ==
    /\ pc = "loop"
    /\ i < total_segments
    /\ start' = SegStart(i, segment_samples)
    /\ end' = SegEnd(i, segment_samples, total_samples)
    /\ IF TooShort(SliceLen(start', end', total_samples), sr)
       THEN /\ skipped' = skipped \cup {[seg |-> i, start |-> start', end |-> end']}
            /\ i' = i + 1
            /\ pc' = pc
       ELSE /\ skipped' = skipped
            /\ i' = i
            /\ pc' = "transcribe"
    /\ UNCHANGED <<segment_sec, sr, run, error, model_loaded, audio,
                   total_samples, segment_samples, total_segments, disk, stale,
                   buf, invoked>>

\* Write got wrong: the line is put in front of what f holds
WriteInFront(line, k) ==
    LET held == <<line>> \o buf
    IN  /\ disk' = [disk EXCEPT !.lines = disk.lines \o SubSeq(held, 1, k)]
        /\ buf' = SubSeq(held, k + 1, Len(held))

\* f.write(line): the line joins what the io layer holds; how much of that
\* has been handed to the disk when write returns depends on the sizes of
\* the lines and of the buffer, so any number k of the oldest held lines
Write(line, k) ==
    LET held == Append(buf, line)
    IN  /\ disk' = [disk EXCEPT !.lines = disk.lines \o SubSeq(held, 1, k)]
        /\ buf' = SubSeq(held, k + 1, Len(held))

\* lines 49-63: model.transcribe on the window, strip, write when not empty.
\* An exception of model.transcribe leaves the with block, which closes f.
Transcribe ==
    /\ pc = "transcribe"
    /\ \/ \E result \in Results :
            LET text == Strip(TextOf(result))
            IN  /\ invoked' = Append(invoked, [seg |-> i, start |-> start, end |-> end,
                                               raised |-> FALSE, result |-> result])
                /\ IF text # <<>>
                   THEN \E k \in 0..(Len(buf) + 1) :
                           Write(Line(run, i, start, end, sr, text), k)
                   ELSE UNCHANGED <<disk, buf>>
                /\ i' = i + 1
                /\ pc' = "loop"
                /\ error' = error
       \/ /\ invoked' = Append(invoked, [seg |-> i, start |-> start, end |-> end,
                                         raised |-> TRUE, result |-> NoResult])
          /\ disk' = Close(disk, buf)
          /\ buf' = <<>>
          /\ i' = i
          /\ Raise("RecognitionError")
    /\ UNCHANGED <<segment_sec, sr, run, model_loaded, audio, total_samples,
                   segment_samples, total_segments, start, end, stale, skipped>>

\* the range is exhausted: the with block closes f, lines 65-66 print
Finish ==
    /\ pc = "loop"
    /\ i >= total_segments
    /\ disk' = Close(disk, buf)
    /\ buf' = <<>>
    /\ pc' = "done"
    /\ UNCHANGED <<segment_sec, sr, run, error, model_loaded, audio,
                   total_samples, segment_samples, total_segments, i, start,
                   end, stale, invoked, skipped>>

\* the process is killed, crashes or loses power: nothing runs any more,
\* and what the io layer held in memory is gone
Kill ==
    /\ pc \in Running
    /\ pc' = "killed"
    /\ buf' = <<>>
    /\ UNCHANGED <<segment_sec, sr, run, error, model_loaded, audio,
                   total_samples, segment_samples, total_segments, i, start,
                   end, disk, stale, invoked, skipped>>

\* the script is started again with the same settings
Rerun ==
    /\ pc \in Ended
    /\ run < MaxRuns
    /\ run' = run + 1
    /\ stale' = (disk.lines # <<>>)
    /\ pc' = "load_model"
    /\ error' = "none"
    /\ model_loaded' = FALSE
    /\ audio' = Unset
    /\ total_samples' = Unset
    /\ segment_samples' = Unset
    /\ total_segments' = Unset
    /\ i' = Unset
    /\ start' = Unset
    /\ end' = Unset
    /\ buf' = <<>>
    /\ invoked' = <<>>
    /\ skipped' = {}
    /\ UNCHANGED <<segment_sec, sr, disk>>

Next ==
    \/ LoadModel
    \/ LoadAudio
    \/ Segmentation
    \/ PrepareOutput
    \/ OpenOutput
    \/ NextSegment
    \/ Transcribe
    \/ Finish
    \/ Kill
    \/ Rerun

Spec == Init /\ [][Next]_vars

SpecCfg == InitCfg /\ [][Next]_vars

(* ----------------------- vocabulary of the claims --------------------- *)

\* the content of the output file as the script sees it through f
FileLines == disk.lines \o buf

\* the windows for which model.transcribe was called
InvokedSegs == {invoked[k].seg : k \in 1..Len(invoked)}

SkippedSegs == {w.seg : w \in skipped}

Blank == {" ", "\t"}

\* the recognizer returned a text that is neither missing, empty nor blank
HasWords(result) ==
    result.has_text /\ \E j \in 1..Len(result.text) : result.text[j] \notin Blank

\* t is raw without its leading and trailing blanks
IsTrim(t, raw) ==
    \E a \in 0..Len(raw) : \E b \in a..Len(raw) :
        /\ t = SubSeq(raw, a + 1, b)
        /\ \A j \in 1..a : raw[j] \in Blank
        /\ \A j \in (b + 1)..Len(raw) : raw[j] \in Blank
        /\ t # <<>> => t[1] \notin Blank /\ t[Len(t)] \notin Blank

\* t tenths of a second is samples / sr to one decimal place
IsTime(t, samples) == 2 * Abs(10 * samples - t * sr) <= Abs(sr)

\* l is the line of the call e in this run
IsLineOf(l, e) ==
    /\ l.run = run
    /\ l.seg = e.seg
    /\ IsTime(l.start_time, e.start)
    /\ IsTime(l.end_time, e.end)
    /\ IsTrim(l.text, e.result.text)

Qualifies(e) == ~e.raised /\ HasWords(e.result)

\* lines holds exactly the lines of the qualifying calls among calls, in order
HoldsLinesOf(lines, calls) ==
    LET q == SelectSeq(calls, Qualifies)
    IN  /\ Len(lines) = Len(q)
        /\ \A k \in 1..Len(q) : IsLineOf(lines[k], q[k])

\* lines holds the lines of the first qualifying calls among calls, in order
HoldsFirstLinesOf(lines, calls) ==
    LET q == SelectSeq(calls, Qualifies)
    IN  /\ Len(lines) <= Len(q)
        /\ \A k \in 1..Len(lines) : IsLineOf(lines[k], q[k])

\* the windows passed to the recognizer lie inside the audio, are no longer
\* than a window, start at 0 and follow one another without gap or overlap
KeptWindowsContiguous ==
    /\ \A k \in 1..Len(invoked) :
         /\ 0 <= invoked[k].start
         /\ invoked[k].start < invoked[k].end
         /\ invoked[k].end <= total_samples
         /\ invoked[k].end - invoked[k].start <= segment_samples
    /\ invoked # <<>> => invoked[1].start = 0
    /\ \A k \in 2..Len(invoked) : invoked[k].start = invoked[k - 1].end

\* where the windows passed to the recognizer end
Covered == IF invoked = <<>> THEN 0 ELSE invoked[Len(invoked)].end

\* [0, N) is covered, but for at most one dropped window shorter than 0.5 s
CoveredButShortTail ==
    \/ Covered = total_samples /\ skipped = {}
    \/ /\ Cardinality(skipped) = 1
       /\ \A w \in skipped :
            /\ w.start = Covered
            /\ w.end = total_samples
            /\ 2 * (w.end - w.start) < sr

\* a full window lasts at least the minimum duration of 0.5 s
WindowNotShort == 2 * segment_samples >= sr

(* -------------------------------- claims ------------------------------ *)

\* C1 as stated: for every N >= 0 and every window_sample_count >= 1 the
\* windows that pass the filter are contiguous, start at 0, lie in [0, N],
\* are no longer than window_sample_count, and once the run is done they
\* cover [0, N) except possibly one dropped short tail.
C1_Original ==
    /\ KeptWindowsContiguous
    /\ pc = "done" => CoveredButShortTail

\* C1 amended: the same, where a full window is not itself shorter than
\* 0.5 s (2 * window_sample_count >= R); where it is shorter, every window
\* is dropped and none is passed on.
C1_Amended ==
    /\ KeptWindowsContiguous
    /\ pc = "done" =>
         IF WindowNotShort THEN CoveredButShortTail
         ELSE invoked = <<>> /\ Cardinality(skipped) = total_segments

C1_Witness ==
    pc = "done" /\ Len(invoked) >= 2 /\ skipped # {} /\ WindowNotShort

\* C2: when the recognizer raises on a window, the run ends there (no
\* retry, no later window), and the file on disk holds exactly the lines of
\* the qualifying windows before it, in order.
C2_RecognitionError ==
    (pc = "failed" /\ error = "RecognitionError") =>
        /\ invoked # <<>>
        /\ invoked[Len(invoked)].raised
        /\ invoked[Len(invoked)].seg = i
        /\ \A k \in 1..(Len(invoked) - 1) :
             ~invoked[k].raised /\ invoked[k].seg < i
        /\ disk.exists
        /\ HoldsLinesOf(disk.lines, SubSeq(invoked, 1, Len(invoked) - 1))

C2_Witness ==
    /\ pc = "failed"
    /\ error = "RecognitionError"
    /\ i >= 1
    /\ Len(disk.lines) >= 1
    /\ \E k \in 1..Len(invoked) : ~invoked[k].raised /\ ~HasWords(invoked[k].result)

\* C3 as stated: whenever the recognizer is being invoked for window i, the
\* content of the output file on disk already holds the lines of all
\* qualifying windows before i.
C3_FlushedBeforeNext ==
    pc = "transcribe" => HoldsLinesOf(disk.lines, invoked)

\* C4 as stated: with W <= 0, R <= 0 or floor(W x R) < 1 the run fails with
\* a ConfigurationError before the model is loaded, the audio is read, the
\* output file is touched or the recognizer is invoked.
InvalidSettings ==
    segment_sec <= 0 \/ sr <= 0 \/ Abs(segment_sec * sr) < SecDenom

C4_Original ==
    InvalidSettings =>
        /\ pc \in {"load_model", "failed", "killed"}
        /\ pc = "failed" => error = "ConfigurationError"
        /\ ~model_loaded
        /\ audio = Unset
        /\ i = Unset
        /\ invoked = <<>>

\* C4 amended: the settings are not validated.  The model is loaded and the
\* audio read first; if R = 0 or int(W x R) = 0 the run then fails with a
\* ZeroDivisionError, before the output file is touched or the recognizer
\* invoked; if int(W x R) < 0 the run does not fail: no window is iterated
\* and the output file is recreated empty.  Only those settings raise
\* ZeroDivisionError, and nothing raises ConfigurationError.
ZeroWindow == sr = 0 \/ Abs(segment_sec * sr) < SecDenom

NegativeWindow == sr # 0 /\ segment_sec * sr <= 0 - SecDenom

C4_Amended ==
    /\ error # "ConfigurationError"
    /\ error = "ZeroDivisionError" <=>
         (ZeroWindow /\ pc = "failed" /\ total_samples # Unset)
    /\ error = "ZeroDivisionError" =>
         /\ model_loaded
         /\ audio # Unset
         /\ i = Unset
         /\ invoked = <<>>
    /\ ZeroWindow => pc \notin {"prepare_output", "open_output", "loop",
                                "transcribe", "done"}
    /\ (NegativeWindow /\ pc \in {"loop", "transcribe", "done"}) =>
         /\ total_segments <= 0
         /\ invoked = <<>>
         /\ skipped = {}
         /\ disk = [exists |-> TRUE, lines |-> <<>>]
         /\ error = "none"

C4_Witness ==
    /\ pc = "failed"
    /\ error = "ZeroDivisionError"
    /\ sr # 0
    /\ segment_sec < 0
    /\ model_loaded
    /\ stale
    /\ disk.lines # <<>>

\* no step up to and including load_audio touches the output file
BeforeAudioFileUntouched ==
    pc \in {"load_model", "load_audio"} => (disk' = disk /\ buf' = <<>>)

\* C5: when load_audio fails, the run ends with the output file as it found
\* it: not created, not deleted, not modified (no step of the run up to
\* and including the failing load_audio changes the file).
C5_InputErrorLeavesFile == [][BeforeAudioFileUntouched]_vars

C5_Witness ==
    pc = "failed" /\ error = "InputError" /\ disk.exists /\ disk.lines # <<>>

\* C6: once the run has opened the output file, the file holds only lines
\* of this run, whatever was there before; and in no state does the file
\* hold lines of two different runs.
C6_NoStaleLines ==
    /\ i # Unset => \A k \in 1..Len(FileLines) : FileLines[k].run = run
    /\ \A a, b \in 1..Len(FileLines) : FileLines[a].run = FileLines[b].run

C6_Witness ==
    /\ run = 2
    /\ stale
    /\ pc = "done"
    /\ disk.lines # <<>>

\* the lines of the file are in strictly increasing start_time order, one
\* per window at most
LinesOrdered ==
    \A a, b \in 1..Len(FileLines) :
        a < b => /\ FileLines[a].start_time < FileLines[b].start_time
                 /\ FileLines[a].seg # FileLines[b].seg

\* every window the loop has passed was dropped or given to the recognizer
NoneSkippedSilently ==
    i # Unset => \A k \in 0..(i - 1) : k \in SkippedSegs \/ k \in InvokedSegs

\* only the last window is dropped, and it is shorter than 0.5 s
OnlyShortTailDropped ==
    \A w \in skipped : w.seg = total_segments - 1 /\ 2 * (w.end - w.start) < sr

\* C7 as stated: lines in strictly increasing start_time order, at most one
\* per window, and no window but the trailing short one is skipped.
C7_Original ==
    /\ LinesOrdered
    /\ NoneSkippedSilently
    /\ OnlyShortTailDropped

\* C7 amended: lines in strictly increasing start_time order, at most one
\* per window, and no window is skipped unless it is shorter than 0.5 s,
\* which is the trailing one alone where a full window is not shorter than
\* 0.5 s.
C7_Amended ==
    /\ LinesOrdered
    /\ NoneSkippedSilently
    /\ \A w \in skipped : 2 * (w.end - w.start) < sr
    /\ WindowNotShort => OnlyShortTailDropped

C7_Witness ==
    /\ pc = "done"
    /\ Len(FileLines) >= 2
    /\ skipped # {}
    /\ WindowNotShort

\* a window is dropped iff it has fewer than 0.5 x R samples
DroppedIffShort ==
    /\ \A w \in skipped : 2 * (w.end - w.start) < sr
    /\ \A k \in 1..Len(invoked) : 2 * (invoked[k].end - invoked[k].start) >= sr

\* every window before the last has exactly window_sample_count samples
NonFinalWindowsFull ==
    /\ \A w \in skipped :
         w.seg < total_segments - 1 => w.end - w.start = segment_samples
    /\ \A k \in 1..Len(invoked) :
         invoked[k].seg < total_segments - 1 =>
             invoked[k].end - invoked[k].start = segment_samples

\* C8 as stated: dropped iff shorter than 0.5 x R, and only the final
\* window can be dropped, every other having window_sample_count samples.
C8_Original ==
    /\ DroppedIffShort
    /\ NonFinalWindowsFull
    /\ \A w \in skipped : w.seg = total_segments - 1

\* C8 amended: dropped iff shorter than 0.5 x R; every non-final window has
\* window_sample_count samples; only the final window can be dropped where
\* window_sample_count >= 0.5 x R, and every window is dropped otherwise.
C8_Amended ==
    /\ DroppedIffShort
    /\ NonFinalWindowsFull
    /\ WindowNotShort => \A w \in skipped : w.seg = total_segments - 1
    /\ (~WindowNotShort /\ i # Unset) =>
         invoked = <<>> /\ pc # "transcribe" /\ SkippedSegs = 0..(i - 1)

C8_Witness ==
    /\ skipped # {}
    /\ \E k \in 1..Len(invoked) : 2 * (invoked[k].end - invoked[k].start) = sr

\* the number of windows is ceil(N / window_sample_count)
CountIsCeiling ==
    pc \in {"prepare_output", "open_output", "loop", "transcribe", "done"} =>
        /\ total_segments >= 0
        /\ total_segments * segment_samples >= total_samples
        /\ total_segments > 0 => (total_segments - 1) * segment_samples < total_samples

\* a finished run has iterated every window, and none for an empty audio
AllIterated ==
    pc = "done" =>
        /\ Len(invoked) + Cardinality(skipped) = total_segments
        /\ total_samples = 0 =>
             invoked = <<>> /\ skipped = {} /\ error = "none"

ExactMultiple == total_samples > 0 /\ total_samples % segment_samples = 0

\* C9 as stated: ceil(N / window_sample_count) windows; none and no error
\* for N = 0; for N = window_sample_count x k exactly k, none dropped.
C9_Original ==
    /\ CountIsCeiling
    /\ AllIterated
    /\ (pc = "done" /\ ExactMultiple) =>
         /\ Len(invoked) = total_samples \div segment_samples
         /\ skipped = {}

\* C9 amended: the same, none being dropped for an exact multiple where
\* window_sample_count >= 0.5 x R; where it is smaller all k are dropped.
C9_Amended ==
    /\ CountIsCeiling
    /\ AllIterated
    /\ (pc = "done" /\ ExactMultiple) =>
         /\ total_segments = total_samples \div segment_samples
         /\ IF WindowNotShort THEN skipped = {} ELSE invoked = <<>>

C9_Witness ==
    /\ pc = "done"
    /\ ExactMultiple
    /\ Len(invoked) >= 2
    /\ skipped = {}

\* the lines this run has appended to the file
RunLines == SelectSeq(FileLines, LAMBDA l : l.run = run)

\* C10: the recognizer is invoked once per kept window, in increasing order
\* and never for a dropped one; a call that returns a missing, empty or
\* blank text appends no line, any other appends exactly one line with the
\* window's start and end time and the trimmed text.  (Once the process is
\* killed f is gone; of the lines appended, the first ones are on disk.)
C10_OneLinePerResult ==
    /\ \A a, b \in 1..Len(invoked) : a < b => invoked[a].seg < invoked[b].seg
    /\ InvokedSegs \cap SkippedSegs = {}
    /\ \A k \in 1..Len(invoked) : 2 * (invoked[k].end - invoked[k].start) >= sr
    /\ pc = "done" => InvokedSegs \cup SkippedSegs = 0..(total_segments - 1)
    /\ pc # "killed" => HoldsLinesOf(RunLines, invoked)
    /\ pc = "killed" => HoldsFirstLinesOf(RunLines, invoked)

C10_Witness ==
    /\ pc = "done"
    /\ \E k \in 1..Len(invoked) : HasWords(invoked[k].result)
    /\ \E k \in 1..Len(invoked) : ~invoked[k].result.has_text
    /\ \E k \in 1..Len(invoked) :
         invoked[k].result.has_text /\ ~HasWords(invoked[k].result)
    /\ Len(RunLines) = 1

====
